---------------------------- MODULE Spec2Model ----------------------------
(***************************************************************************)
(* Flood-Risk-Demo: the hourly -> daily metric pipeline (metrics.py), the  *)
(* risk classifier (risk_states.py), the CSV loader (data_loader.py) and   *)
(* the batch driver (main.py).                                             *)
(*                                                                         *)
(* Numbers are fixed point, so that the thresholds of the source are exact *)
(* integers:                                                               *)
(*   rain, EFD, CFL       hundredths        (30.0  is 3000)                *)
(*   soil moisture, PSe   hundredths        (0.80  is 80, 4.0 is 400)      *)
(*   discharge            tens of m3/s      (0.001 * dis is dis in 0.01)   *)
(*   risk_multiplier      1/8000            (1.0   is 8000)                *)
(* A timestamp is a pair day, hour.  Floating point rounding is not        *)
(* modelled.                                                               *)
(*                                                                         *)
(* A pandas cell that is NaN is recorded in the row's field na (the set of *)
(* the row's columns that are NaN); the value stored under such a column   *)
(* is a placeholder and is never read without consulting na.               *)
(***************************************************************************)
EXTENDS Integers, Sequences, FiniteSets, TLC

VARIABLES
    pc,        \* main / run_dataset: the statement about to run
    k,         \* main: position in SAMPLE_DATASETS of the dataset at hand
    file,      \* the CSV file run_dataset was given
    hourly,    \* run_dataset's local: the hourly table
    daily,     \* run_dataset's local: the daily table
    calls,     \* the functions run_dataset has called for the dataset at hand
    raised,    \* the exception that ended the run ("" while none)
    status,    \* per dataset: "pending", "ok" or "error"
    output,    \* OUTPUT_DIR: the files written, as <<dataset, kind>>
    arg,       \* main's command line; a direct call's argument
    ret        \* a direct call's result

vars == <<pc, k, file, hourly, daily, calls, raised, status, output, arg, ret>>

(***************************** program constants *****************************)

BASELINE_FLOOD == 3000

SATURATION_THRESHOLD == 80

HIGH_RAIN_DAILY_CFL == 6000

SATURATED_DAILY_PSE == 400

STABLE_CFL_MAX == 8000

STABLE_PSE_MAX == 400

STABLE_STREAK_MAX == 2

FAILURE_CFL_MIN == 16000

FAILURE_PSE_MIN == 800

FAILURE_STREAK_MIN == 4

STATE_STABLE == "Stable"

STATE_STRAINING == "Straining"

STATE_FAILURE == "Failure"

REQUIRED_COLS == <<"timestamp", "rainfall_mm", "soil_moisture", "river_discharge_m3s">>

NumDatasets == 3

(********************************* helpers *********************************)

Max(a, b) == IF a >= b THEN a ELSE b

Min(a, b) == IF a <= b THEN a ELSE b

Range(s) == {s[i] : i \in DOMAIN s}

\* The sum of a sequence of numbers, by halves.
RECURSIVE SumSeq(_)
SumSeq(s) ==
    IF s = <<>> THEN 0
    ELSE IF Len(s) = 1 THEN s[1]
    ELSE LET mid == Len(s) \div 2
         IN  SumSeq(SubSeq(s, 1, mid)) + SumSeq(SubSeq(s, mid + 1, Len(s)))

\* Whether a cell is NaN.
IsNa(row, col) == col \in row.na

(****************************** metrics.py ******************************)

\* EFD = rainfall_mm + 50.0 * soil_moisture + 0.001 * river_discharge_m3s
compute_efd(r) == r.rainfall_mm + 50 * r.soil_moisture + r.river_discharge_m3s

CFL_hour(r) == Max(compute_efd(r) - BASELINE_FLOOD, 0)

PSe_hour(r) == Max(r.soil_moisture - SATURATION_THRESHOLD, 0)

\* Faulty variant: the bins run from the first row's day to the last row's,
\* as if the table were in chronological order.
ResampleUnordered(rows) ==
    IF rows = <<>> THEN <<>>
    ELSE LET lo == rows[1].day
             hi == rows[Len(rows)].day
         IN  [i \in 1..Max(hi - lo + 1, 0) |-> lo + i - 1]

\* Faulty variant: one bin per day that has a row (a groupby on the date).
ResampleGroupby(rows) ==
    LET ds == {rows[i].day : i \in DOMAIN rows}
    IN  [i \in 1..Cardinality(ds) |->
            CHOOSE d \in ds : Cardinality({e \in ds : e < d}) = i - 1]

\* series.resample("D"): the bins are the calendar days from the earliest to
\* the latest timestamp, every day between them included; the rows are
\* grouped by their day whatever their order (the grouper sorts the axis).
ResampleDays(rows) ==
    IF rows = <<>> THEN <<>>
    ELSE LET ds == {rows[i].day : i \in DOMAIN rows}
             lo == CHOOSE d \in ds : \A e \in ds : d <= e
             hi == CHOOSE d \in ds : \A e \in ds : d >= e
         IN  [i \in 1..(hi - lo + 1) |-> lo + i - 1]

\* The entries of one calendar day of an hourly series (a sequence of
\* day, v), in series order.
OfDay(series, d) == SelectSeq(series, LAMBDA e : e.day = d)

\* .resample("D").sum() of an hourly series: 0 for a day without entries.
DaySum(series, d) ==
    LET es == OfDay(series, d)
    IN  SumSeq([i \in DOMAIN es |-> es[i].v])

\* Faulty variant: the least reading of the day instead of the greatest.
DayMin(series, d) ==
    LET es == OfDay(series, d)
    IN  IF es = <<>> THEN 0
        ELSE CHOOSE m \in {es[i].v : i \in DOMAIN es} :
                 \A i \in DOMAIN es : es[i].v >= m

\* .resample("D").max(): NaN for a day without entries (IsNaDay tells; the
\* value is then a placeholder).
DayMax(series, d) ==
    LET es == OfDay(series, d)
    IN  IF es = <<>> THEN 0
        ELSE CHOOSE m \in {es[i].v : i \in DOMAIN es} :
                 \A i \in DOMAIN es : es[i].v <= m

IsNaDay(series, d) == OfDay(series, d) = <<>>

\* Faulty variant: the total of the days before, the day itself left out.
CumsumExclusive(s) == [i \in DOMAIN s |-> SumSeq(SubSeq(s, 1, i - 1))]

\* Series.cumsum(): the running total of the values up to each position.
Cumsum(s) == [i \in DOMAIN s |-> SumSeq(SubSeq(s, 1, i))]

\* The loop of _running_streak: streak is np.zeros(len), vals the cells'
\* truth values (bool(NaN) is True), i the 1-based loop index.
RECURSIVE StreakLoop(_, _, _)
StreakLoop(vals, i, streak) ==
    IF i > Len(vals) THEN streak
    ELSE StreakLoop(vals, i + 1,
            [streak EXCEPT ![i] =
                IF vals[i] THEN (IF i > 1 THEN streak[i - 1] + 1 ELSE 1)
                ELSE 0])

\* Faulty variant: a false day keeps the previous count.
RunningStreakNoReset(vals) ==
    LET np_zeros == [i \in DOMAIN vals |-> 0]
        RECURSIVE Loop(_, _)
        Loop(i, streak) ==
            IF i > Len(vals) THEN streak
            ELSE Loop(i + 1,
                    [streak EXCEPT ![i] =
                        IF vals[i] THEN (IF i > 1 THEN streak[i - 1] + 1 ELSE 1)
                        ELSE (IF i > 1 THEN streak[i - 1] ELSE 0)])
    IN  Loop(1, np_zeros)

_running_streak(vals) ==
    StreakLoop(vals, 1, [i \in DOMAIN vals |-> 0])


\* A comparison with a NaN cell is False.
Gt(row, col, t) == ~IsNa(row, col) /\ row[col] > t

\* bool(cell) as `if vals[i]` of _running_streak sees it: bool(NaN) is True.
Truthy(row, col) == IsNa(row, col) \/ row[col]

TruthColumn(tbl, col) == [i \in DOMAIN tbl |-> Truthy(tbl[i], col)]

compute_cfl(rows) ==
    LET cfl_hour == [i \in DOMAIN rows |-> [day |-> rows[i].day, v |-> CFL_hour(rows[i])]]
        days == ResampleDays(cfl_hour)
        dcfl == [i \in DOMAIN days |-> DaySum(cfl_hour, days[i])]
        cum  == Cumsum(dcfl)
    IN  [i \in DOMAIN days |->
            [day |-> days[i], na |-> {},
             daily_CFL |-> dcfl[i], cumulative_CFL |-> cum[i]]]

compute_pse(rows) ==
    LET pse_hour == [i \in DOMAIN rows |-> [day |-> rows[i].day, v |-> PSe_hour(rows[i])]]
        sm == [i \in DOMAIN rows |-> [day |-> rows[i].day, v |-> rows[i].soil_moisture]]
        days == ResampleDays(pse_hour)
        dpse == [i \in DOMAIN days |-> DaySum(pse_hour, days[i])]
        cum  == Cumsum(dpse)
        t1 == [i \in DOMAIN days |->
                 [day |-> days[i],
                  na |-> IF IsNaDay(sm, days[i]) THEN {"max_sm_day"} ELSE {},
                  daily_PSe |-> dpse[i], cumulative_PSe |-> cum[i],
                  max_sm_day |-> DayMax(sm, days[i])]]
        t2 == [i \in DOMAIN t1 |->
                 [no_drying_day |-> Gt(t1[i], "max_sm_day", SATURATION_THRESHOLD)]
                 @@ t1[i]]
        st == _running_streak(TruthColumn(t2, "no_drying_day"))
    IN  [i \in DOMAIN t2 |-> [consecutive_no_drying_days |-> st[i]] @@ t2[i]]

\* The row of tbl indexed by day d, as a set (empty: the index lacks d).
RowsAt(tbl, d) == {tbl[i] : i \in {j \in DOMAIN tbl : tbl[j].day = d}}

\* Faulty variant: compound = high_rain_day OR saturated_day.
compute_compound_or(daily_cfl, daily_pse) ==
    LET flags == [i \in DOMAIN daily_cfl |->
            LET c == daily_cfl[i]
                ps == RowsAt(daily_pse, c.day)
                hr == Gt(c, "daily_CFL", HIGH_RAIN_DAILY_CFL)
                sat == IF ps = {} THEN FALSE
                       ELSE Gt(CHOOSE p \in ps : TRUE, "daily_PSe", SATURATED_DAILY_PSE)
            IN  [day |-> c.day,
                 na |-> IF ps = {} THEN {"saturated_day"} ELSE {},
                 high_rain_day |-> hr,
                 saturated_day |-> sat,
                 compound |-> hr \/ ps = {} \/ sat]]
        s1 == _running_streak(TruthColumn(flags, "high_rain_day"))
        s2 == _running_streak(TruthColumn(flags, "saturated_day"))
        s3 == _running_streak(TruthColumn(flags, "compound"))
    IN  [i \in DOMAIN flags |->
            [consecutive_high_rain_days |-> s1[i],
             consecutive_saturated_days |-> s2[i],
             consecutive_compound_cycles |-> s3[i]] @@ flags[i]]

\* comp[col] = series: the series is reindexed to comp's index, NaN where
\* its own index lacks the day.
compute_compound(daily_cfl, daily_pse) ==
    LET flags == [i \in DOMAIN daily_cfl |->
            LET c == daily_cfl[i]
                ps == RowsAt(daily_pse, c.day)
                hr == Gt(c, "daily_CFL", HIGH_RAIN_DAILY_CFL)
                sat == IF ps = {} THEN FALSE
                       ELSE Gt(CHOOSE p \in ps : TRUE, "daily_PSe", SATURATED_DAILY_PSE)
            IN  [day |-> c.day,
                 na |-> IF ps = {} THEN {"saturated_day"} ELSE {},
                 high_rain_day |-> hr,
                 saturated_day |-> sat,
                 \* bool & object: a NaN operand is filled with False
                 compound |-> hr /\ (ps # {} /\ sat)]]
        s1 == _running_streak(TruthColumn(flags, "high_rain_day"))
        s2 == _running_streak(TruthColumn(flags, "saturated_day"))
        s3 == _running_streak(TruthColumn(flags, "compound"))
    IN  [i \in DOMAIN flags |->
            [consecutive_high_rain_days |-> s1[i],
             consecutive_saturated_days |-> s2[i],
             consecutive_compound_cycles |-> s3[i]] @@ flags[i]]

\* The columns of each frame, for the NaN cells an outer join fills in.
CflBlank ==
    [daily_CFL |-> 0, cumulative_CFL |-> 0]

PseBlank ==
    [daily_PSe |-> 0, cumulative_PSe |-> 0, max_sm_day |-> 0,
     no_drying_day |-> FALSE, consecutive_no_drying_days |-> 0]

CompBlank ==
    [high_rain_day |-> FALSE, saturated_day |-> FALSE, compound |-> FALSE,
     consecutive_high_rain_days |-> 0, consecutive_saturated_days |-> 0,
     consecutive_compound_cycles |-> 0]

SortedDays(ds) ==
    [i \in 1..Cardinality(ds) |->
        CHOOSE d \in ds : Cardinality({e \in ds : e < d}) = i - 1]

\* left.join(right, how="outer"): one row per day of either index, in day
\* order; the columns of the side that lacks the day are NaN.
OuterJoin(left, lblank, right, rblank) ==
    LET ds == {left[i].day : i \in DOMAIN left} \cup {right[i].day : i \in DOMAIN right}
        idx == SortedDays(ds)
        side(tbl, blank, d) ==
            IF RowsAt(tbl, d) = {}
            THEN [na |-> DOMAIN blank] @@ blank
            ELSE CHOOSE r \in RowsAt(tbl, d) : TRUE
    IN  [i \in DOMAIN idx |->
            LET l == side(left, lblank, idx[i])
                r == side(right, rblank, idx[i])
            IN  [day |-> idx[i], na |-> l.na \cup r.na] @@ l @@ r]

\* compute_all_metrics: the enriched hourly table and the daily table.
compute_all_metrics(df_hourly) ==
    LET h == [i \in DOMAIN df_hourly |->
                [EFD |-> compute_efd(df_hourly[i]),
                 CFL_hour |-> CFL_hour(df_hourly[i]),
                 PSe_hour |-> PSe_hour(df_hourly[i])] @@ df_hourly[i]]
        daily_cfl == compute_cfl(h)
        daily_pse == compute_pse(h)
        compound == compute_compound(daily_cfl, daily_pse)
    IN  [hourly |-> h,
         daily |-> OuterJoin(OuterJoin(daily_cfl, CflBlank, daily_pse, PseBlank),
                             CflBlank @@ PseBlank, compound, CompBlank)]

(***************************** risk_states.py *****************************)

\* Series.fillna(0): 0 for a NaN cell.
Fillna0(row, col) == IF IsNa(row, col) THEN 0 ELSE row[col]

\* Faulty variant: the thresholds compared with > instead of >=.
RiskStateStrict(cfl, pse, streak) ==
    IF cfl > FAILURE_CFL_MIN \/ pse > FAILURE_PSE_MIN \/ streak > FAILURE_STREAK_MIN
    THEN STATE_FAILURE
    ELSE IF cfl > STABLE_CFL_MAX \/ pse > STABLE_PSE_MAX \/ streak > STABLE_STREAK_MAX
    THEN STATE_STRAINING
    ELSE STATE_STABLE

\* state = Stable; state[straining_mask] = Straining; state[failure_mask] = Failure
RiskState(cfl, pse, streak) ==
    LET straining_mask == cfl >= STABLE_CFL_MAX \/ pse >= STABLE_PSE_MAX
                          \/ streak >= STABLE_STREAK_MAX
        failure_mask == cfl >= FAILURE_CFL_MIN \/ pse >= FAILURE_PSE_MIN
                        \/ streak >= FAILURE_STREAK_MIN
        s0 == STATE_STABLE
        s1 == IF straining_mask THEN STATE_STRAINING ELSE s0
    IN  IF failure_mask THEN STATE_FAILURE ELSE s1

\* Faulty variant: the multiplier clamped at 5.0.
RiskMultiplierClamped(cfl, pse, streak) ==
    Min(8000 + cfl + 20 * pse + 4000 * streak, 40000)

\* 1.0 + cfl / 80.0 + pse / 4.0 + streak * 0.5, in 1/8000
RiskMultiplier(cfl, pse, streak) == 8000 + cfl + 20 * pse + 4000 * streak

assign_risk_states(tbl) ==
    [i \in DOMAIN tbl |->
        LET cfl == Fillna0(tbl[i], "daily_CFL")
            pse == Fillna0(tbl[i], "daily_PSe")
            streak == Fillna0(tbl[i], "consecutive_compound_cycles")
        IN  [risk_state |-> RiskState(cfl, pse, streak),
             risk_multiplier |-> RiskMultiplier(cfl, pse, streak)] @@ tbl[i]]

\* Series.round(decimals) on a non-negative value v: the nearest multiple of
\* q (the size of the last kept decimal in the unit of the column), a tie to
\* the even one.
RoundHalfEven(v, q) ==
    LET lo == (v \div q) * q
        r == v - lo
    IN  IF 2 * r < q THEN lo
        ELSE IF 2 * r > q THEN lo + q
        ELSE IF (lo \div q) % 2 = 0 THEN lo ELSE lo + q

\* The columns summary_table keeps.
SummaryCols == {"daily_CFL", "daily_PSe", "compound", "risk_state", "risk_multiplier"}

\* tbl = daily[present].copy(); tbl.index = tbl.index.date; the three
\* columns rounded: daily_CFL to 2 decimals (its unit, 1/100), daily_PSe to
\* 3 (finer than its unit), risk_multiplier to 3 (8 of its units of 1/8000).
\* A NaN stays NaN.
summary_table(tbl) ==
    [i \in DOMAIN tbl |->
        [date |-> tbl[i].day,
         na |-> tbl[i].na \cap SummaryCols,
         daily_CFL |-> RoundHalfEven(tbl[i].daily_CFL, 1),
         daily_PSe |-> RoundHalfEven(tbl[i].daily_PSe, 1),
         compound |-> tbl[i].compound,
         risk_state |-> tbl[i].risk_state,
         risk_multiplier |-> RoundHalfEven(tbl[i].risk_multiplier, 8)]]

(***************************** data_loader.py *****************************)

\* Series.clip(lower, upper)
Clip(x, lower, upper) == Min(Max(x, lower), upper)

ClipLower(x, lower) == Max(x, lower)

\* The timestamp as one number, for ordering.
Timestamp(r) == r.day * 24 + r.hour

\* df.sort_values("timestamp"): the rows earlier than a pivot row, sorted,
\* then the rows of the pivot's timestamp, then the later rows, sorted.
RECURSIVE SortByTimestamp(_)
SortByTimestamp(rows) ==
    IF Len(rows) <= 1 THEN rows
    ELSE LET p == Timestamp(rows[(Len(rows) + 1) \div 2])
         IN  SortByTimestamp(SelectSeq(rows, LAMBDA r : Timestamp(r) < p))
             \o SelectSeq(rows, LAMBDA r : Timestamp(r) = p)
             \o SortByTimestamp(SelectSeq(rows, LAMBDA r : Timestamp(r) > p))

\* Faulty variant: no column is ever reported missing.
NoMissing(f) == <<>>

\* missing = [c for c in REQUIRED_COLS if c not in df.columns]
Missing(f) == SelectSeq(REQUIRED_COLS, LAMBDA c : c \notin f.cols)

\* The cleaned table load_csv builds before its closing print.
LoadFrame(f) ==
    SortByTimestamp(
        [i \in DOMAIN f.rows |->
            [f.rows[i] EXCEPT
                !.soil_moisture = Clip(@, 0, 100),
                !.river_discharge_m3s = ClipLower(@, 0),
                !.rainfall_mm = ClipLower(@, 0)]])

\* The exception load_csv ends with ("" when it returns): the path does not
\* exist; read_csv(parse_dates=["timestamp"]) finds no timestamp column; a
\* required column is missing; the closing print reads df.index[0] of a
\* table without rows.
LoadRaises(f) ==
    IF ~f.exists THEN "FileNotFoundError"
    ELSE IF "timestamp" \notin f.cols THEN "ValueError"
    ELSE IF Missing(f) # <<>> THEN "ValueError"
    ELSE IF LoadFrame(f) = <<>> THEN "IndexError"
    ELSE ""

(******************************** CSV files ********************************)

MaxDays == 3

MaxVariantDays == 2

WetHours == 24

\* One calendar day of a file: n hourly rows with the same readings.
Hours(d, n, rain, sm, dis) ==
    [h \in 1..n |->
        [day |-> d, hour |-> h - 1, rainfall_mm |-> rain,
         soil_moisture |-> sm, river_discharge_m3s |-> dis]]

\* "gap": no record that day; "dry": one dry hour; "rain": one hour of 85 mm
\* on half-saturated soil (EFD 110, daily_CFL exactly 80); "wet": WetHours
\* hours with a soil moisture reading of 1.05 and 1000 m3/s.
DayKinds == {"gap", "dry", "rain", "wet"}

\* The days of the longer files: "shower": one hour of 70 mm on
\* half-saturated soil (daily_CFL 65, between the high-rain threshold and the
\* Stable limit); "damp": one hour with soil moisture 0.90 and no rain;
\* "soak": WetHours - 1 hours of saturated soil and a last hour at 0.50.
DayRows(d, kind) ==
    CASE kind = "gap" -> <<>>
      [] kind = "dry" -> Hours(d, 1, 0, 50, 0)
      [] kind = "rain" -> Hours(d, 1, 8500, 50, 0)
      [] kind = "wet" -> Hours(d, WetHours, 0, 105, 100)
      [] kind = "shower" -> Hours(d, 1, 7000, 50, 0)
      [] kind = "damp" -> Hours(d, 1, 0, 90, 0)
      [] kind = "soak" -> Hours(d, WetHours - 1, 0, 100, 0)
                          \o <<[day |-> d, hour |-> WetHours - 1, rainfall_mm |-> 0,
                                soil_moisture |-> 50, river_discharge_m3s |-> 0]>>

RECURSIVE Concat(_)
Concat(ss) == IF ss = <<>> THEN <<>> ELSE Head(ss) \o Concat(Tail(ss))

Reverse(s) == [i \in DOMAIN s |-> s[Len(s) + 1 - i]]

\* A file is named by the kinds of its days and by how it is laid out:
\* "sorted" (chronological), "reversed" (latest row first), "no_sm" (the
\* soil_moisture column is absent), "no_ts" (the timestamp column is absent),
\* "absent" (no such file).
Layouts == {"sorted", "reversed", "no_sm", "no_ts", "absent"}

DaySeqs ==
    {ds \in UNION {[1..n -> DayKinds] : n \in 0..MaxDays} :
        ds # <<>> => ds[1] # "gap" /\ ds[Len(ds)] # "gap"}

Files ==
    {[days |-> ds, layout |-> l] : ds \in DaySeqs, l \in {"sorted"}}
    \cup {[days |-> ds, layout |-> l] :
            ds \in {x \in DaySeqs : Len(x) <= MaxVariantDays},
            l \in Layouts \ {"sorted"}}

\* The three sample datasets are generated files: of the layouts only
\* "sorted" and "no_sm", and without a "rain" day.
SampleFiles ==
    {f \in Files : f.layout \in {"sorted", "no_sm"} /\ "rain" \notin Range(f.days)}

\* The files main may be pointed at: any file with --csv, a sample dataset
\* otherwise.
FilesFor(args) == IF args = "csv" THEN Files ELSE SampleFiles

\* What is on disk under a file's name.
Content(f) ==
    LET rows == Concat([d \in DOMAIN f.days |-> DayRows(d, f.days[d])])
    IN  [exists |-> f.layout # "absent",
         cols |-> Range(REQUIRED_COLS)
                  \ (IF f.layout = "no_sm" THEN {"soil_moisture"}
                     ELSE IF f.layout = "no_ts" THEN {"timestamp"} ELSE {}),
         rows |-> IF f.layout = "reversed" THEN Reverse(rows) ELSE rows]

(********************************* main.py *********************************)

None == <<>>

\* main's branches: --csv and --dataset run one dataset, neither runs all of
\* SAMPLE_DATASETS.
ToRun(args) == IF args = "all" THEN NumDatasets ELSE 1

\* main: the next iteration of `for ... in SAMPLE_DATASETS.items()` (or the
\* single call of the --csv and --dataset branches) enters run_dataset; after
\* the last one main prints where the outputs are and returns.
MainNext ==
    /\ pc = "main"
    /\ IF k < ToRun(arg)
       THEN /\ k' = k + 1
            /\ \E f \in FilesFor(arg) : file' = f
            /\ calls' = <<>>
            /\ pc' = "load"
       ELSE /\ pc' = "done"
            /\ UNCHANGED <<k, file, calls>>
    /\ UNCHANGED <<hourly, daily, raised, status, output, arg, ret>>

\* run_dataset, step 1: hourly = load_csv(csv_path).  An exception leaves
\* run_dataset and main (neither catches anything): the process ends.
LoadCsv ==
    /\ pc = "load"
    /\ calls' = Append(calls, "load_csv")
    /\ IF LoadRaises(Content(file)) # ""
       THEN /\ raised' = LoadRaises(Content(file))
            /\ status' = [status EXCEPT ![k] = "error"]
            /\ pc' = "crashed"
            /\ UNCHANGED hourly
       ELSE /\ hourly' = LoadFrame(Content(file))
            /\ pc' = "metrics"
            /\ UNCHANGED <<raised, status>>
    /\ UNCHANGED <<k, file, daily, output, arg, ret>>

\* The daily table d with the running totals of the row last added to its own.
AddCarry(d, last) ==
    [i \in DOMAIN d |->
        [d[i] EXCEPT !.cumulative_CFL = @ + last.cumulative_CFL,
                     !.cumulative_PSe = @ + last.cumulative_PSe]]

\* Faulty variant of step 2: the running totals go on from the last row of
\* the daily table the previous dataset left.
ComputeMetricsCarry ==
    /\ pc = "metrics"
    /\ calls' = Append(calls, "compute_all_metrics")
    /\ LET m == compute_all_metrics(hourly)
       IN  /\ hourly' = m.hourly
           /\ daily' = IF k > 1 /\ Len(daily) > 0
                        THEN AddCarry(m.daily, daily[Len(daily)])
                        ELSE m.daily
    /\ pc' = "risk"
    /\ UNCHANGED <<k, file, raised, status, output, arg, ret>>

\* step 2: hourly, daily = compute_all_metrics(hourly); df["rainfall_mm"] of
\* a table without the column is a KeyError.
ComputeMetrics ==
    /\ pc = "metrics"
    /\ calls' = Append(calls, "compute_all_metrics")
    /\ IF Missing(Content(file)) # <<>>
       THEN /\ raised' = "KeyError"
            /\ status' = [status EXCEPT ![k] = "error"]
            /\ pc' = "crashed"
            /\ UNCHANGED <<hourly, daily>>
       ELSE /\ LET m == compute_all_metrics(hourly)
               IN  hourly' = m.hourly /\ daily' = m.daily
            /\ pc' = "risk"
            /\ UNCHANGED <<raised, status>>
    /\ UNCHANGED <<k, file, output, arg, ret>>

\* step 3: daily = assign_risk_states(daily)
AssignRisk ==
    /\ pc = "risk"
    /\ calls' = Append(calls, "assign_risk_states")
    /\ daily' = assign_risk_states(daily)
    /\ pc' = "plot"
    /\ UNCHANGED <<k, file, hourly, raised, status, output, arg, ret>>

\* step 4: plot_all_panels saves the figure
PlotAllPanels ==
    /\ pc = "plot"
    /\ calls' = Append(calls, "plot_all_panels")
    /\ output' = output \cup {<<k, "figure">>}
    /\ pc' = "summary"
    /\ UNCHANGED <<k, file, hourly, daily, raised, status, arg, ret>>

\* steps 5 and 6: the summary table is written and printed; run_dataset
\* returns.  Its locals hourly and daily are dead from here on: the next
\* call assigns each before it reads it.
SaveSummary ==
    /\ pc = "summary"
    /\ calls' = Append(calls, "summary_table")
    /\ output' = output \cup {<<k, "summary">>}
    /\ status' = [status EXCEPT ![k] = "ok"]
    /\ hourly' = None
    /\ pc' = "main"
    /\ UNCHANGED <<k, file, daily, raised, arg, ret>>

\* main is started with --csv, with --dataset or with neither ("all").
Init ==
    /\ pc = "main"
    /\ k = 0
    /\ file = None
    /\ hourly = None
    /\ daily = None
    /\ calls = <<>>
    /\ raised = ""
    /\ status = [i \in 1..NumDatasets |-> "pending"]
    /\ output = {}
    /\ arg \in {"csv", "dataset", "all"}
    /\ ret = None

Next ==
    \/ MainNext
    \/ LoadCsv
    \/ ComputeMetrics
    \/ AssignRisk
    \/ PlotAllPanels
    \/ SaveSummary

Spec == Init /\ [][Next]_vars

(************************ direct calls of the functions ************************)

MaxLen == 6

MaxStreak == 5

MaxCompDays == 3

MaxCoreDays == 3

MaxCoreRows == 3

Untouched == <<k, file, hourly, daily, calls, status, output, arg>>

InitCall(inputs) ==
    /\ pc = "call"
    /\ k = 0
    /\ file = None
    /\ hourly = None
    /\ daily = None
    /\ calls = <<>>
    /\ raised = ""
    /\ status = [i \in 1..NumDatasets |-> "pending"]
    /\ output = {}
    /\ arg \in inputs
    /\ ret = None

\* _running_streak(bool_series)
BoolSeqs == UNION {[1..n -> BOOLEAN] : n \in 0..MaxLen}

CallRunningStreak ==
    /\ pc = "call"
    /\ ret' = _running_streak(arg)
    /\ pc' = "returned"
    /\ UNCHANGED raised
    /\ UNCHANGED Untouched

SpecStreak == InitCall(BoolSeqs) /\ [][CallRunningStreak]_vars

\* assign_risk_states(daily): daily tables of one or two days, the values at
\* and next to every threshold, any one of the three inputs NaN.
RiskCols == {"daily_CFL", "daily_PSe", "consecutive_compound_cycles"}

RiskRows ==
    {[day |-> 1, na |-> n, daily_CFL |-> c, daily_PSe |-> p,
      consecutive_compound_cycles |-> s] :
        n \in {{}} \cup {{col} : col \in RiskCols},
        c \in {0, STABLE_CFL_MAX - 1, STABLE_CFL_MAX, FAILURE_CFL_MIN - 1, FAILURE_CFL_MIN},
        p \in {0, STABLE_PSE_MAX - 1, STABLE_PSE_MAX, FAILURE_PSE_MIN - 1, FAILURE_PSE_MIN},
        s \in 0..MaxStreak}

OtherRows ==
    {[day |-> 2, na |-> {}, daily_CFL |-> c, daily_PSe |-> 0,
      consecutive_compound_cycles |-> 0] : c \in {0, FAILURE_CFL_MIN}}

RiskTables ==
    {<<r>> : r \in RiskRows}
    \cup {<<r, o>> : r \in RiskRows, o \in OtherRows}
    \cup {<<[o EXCEPT !.day = 0], r>> : r \in RiskRows, o \in OtherRows}

CallAssignRiskStates ==
    /\ pc = "call"
    /\ ret' = assign_risk_states(arg)
    /\ pc' = "returned"
    /\ UNCHANGED raised
    /\ UNCHANGED Untouched

SpecRisk == InitCall(RiskTables) /\ [][CallAssignRiskStates]_vars

\* compute_compound(daily_cfl, daily_pse): days 1..n in daily_cfl, each just
\* at or just above its threshold; daily_pse has any subset of those days.
CompInputs ==
    UNION {
        {[daily_cfl |-> [d \in 1..n |-> [day |-> d, na |-> {}, daily_CFL |-> c[d]]],
          daily_pse |-> LET ds == SortedDays({d \in 1..n : p[d] # "absent"})
                        IN  [i \in DOMAIN ds |->
                                [day |-> ds[i], na |-> {},
                                 daily_PSe |-> IF p[ds[i]] = "above"
                                               THEN SATURATED_DAILY_PSE + 1
                                               ELSE SATURATED_DAILY_PSE]]] :
            c \in [1..n -> {HIGH_RAIN_DAILY_CFL, HIGH_RAIN_DAILY_CFL + 1}],
            p \in [1..n -> {"at", "above", "absent"}]} :
        n \in 0..MaxCompDays}

CallComputeCompound ==
    /\ pc = "call"
    /\ ret' = compute_compound(arg.daily_cfl, arg.daily_pse)
    /\ pc' = "returned"
    /\ UNCHANGED raised
    /\ UNCHANGED Untouched

SpecCompound == InitCall(CompInputs) /\ [][CallComputeCompound]_vars

\* compute_all_metrics(df_hourly): hourly tables of up to MaxCoreRows rows
\* with distinct timestamps, in any order.
CoreRows ==
    {[day |-> d, hour |-> h, rainfall_mm |-> r, soil_moisture |-> 50,
      river_discharge_m3s |-> 0] :
        d \in 1..MaxCoreDays, h \in {0, 12}, r \in {0, 8500}}

CoreTables ==
    UNION {{t \in [1..n -> CoreRows] :
                \A i, j \in 1..n : i # j => Timestamp(t[i]) # Timestamp(t[j])} :
           n \in 0..MaxCoreRows}

\* No statement of compute_all_metrics raises for a table that has the three
\* numeric columns and a timestamp index.
CallComputeAllMetrics ==
    /\ pc = "call"
    /\ ret' = compute_all_metrics(arg)
    /\ raised' = ""
    /\ pc' = "returned"
    /\ UNCHANGED Untouched

SpecCore == InitCall(CoreTables) /\ [][CallComputeAllMetrics]_vars

\* summary_table(daily): daily tables as assign_risk_states returns them, of
\* one or two days, with multipliers on and off the thousandths, daily_PSe
\* NaN or not, and a column summary_table does not keep.
SummaryRows ==
    {[day |-> 1, na |-> n, daily_CFL |-> c, daily_PSe |-> p, compound |-> s > 0,
      consecutive_compound_cycles |-> s, cumulative_CFL |-> c] :
        n \in {{}, {"daily_PSe"}},
        c \in {0, 3, 4, 12, STABLE_CFL_MAX},
        p \in {0, STABLE_PSE_MAX + 1},
        s \in {0, 2}}

SummaryTables ==
    {assign_risk_states(<<r>>) : r \in SummaryRows}
    \cup {assign_risk_states(<<r, [o EXCEPT !.day = 2]>>) :
            r \in SummaryRows, o \in {q \in SummaryRows : q.daily_PSe = 0 /\ q.na = {}}}

\* Faulty variant: the rounding and the date-only index written into the
\* frame that was passed in.
CallSummaryTableInPlace ==
    /\ pc = "call"
    /\ ret' = summary_table(arg)
    /\ arg' = ret'
    /\ pc' = "returned"
    /\ UNCHANGED raised
    /\ UNCHANGED <<k, file, hourly, daily, calls, status, output>>

CallSummaryTable ==
    /\ pc = "call"
    /\ ret' = summary_table(arg)
    /\ pc' = "returned"
    /\ UNCHANGED raised
    /\ UNCHANGED Untouched

SpecSummary == InitCall(SummaryTables) /\ [][CallSummaryTable]_vars

\* run_dataset after load_csv has returned, on longer files: up to MaxRunDays
\* days, each a gap, a shower, a damp day or a soak.
MaxRunDays == 5

RunKinds == {"gap", "shower", "damp", "soak"}

RunFiles ==
    {[days |-> ds, layout |-> "sorted"] :
        ds \in {x \in UNION {[1..n -> RunKinds] : n \in 1..MaxRunDays} :
                    x[1] # "gap" /\ x[Len(x)] # "gap"}}

InitRun ==
    /\ pc = "metrics"
    /\ k = 1
    /\ file \in RunFiles
    /\ hourly = LoadFrame(Content(file))
    /\ daily = None
    /\ calls = <<"load_csv">>
    /\ raised = ""
    /\ status = [i \in 1..NumDatasets |-> "pending"]
    /\ output = {}
    /\ arg = "csv"
    /\ ret = None

SpecRun == InitRun /\ [][ComputeMetrics \/ AssignRisk]_vars

(********************************* claims *********************************)

\* A NaN input counts as 0.
ValueOr0(row, col) == IF col \in row.na THEN 0 ELSE row[col]

\* C1: for every day, risk_state is Failure if daily_CFL >= 160 or daily_PSe
\* >= 8 or streak >= 4, otherwise Straining if daily_CFL >= 80 or daily_PSe
\* >= 4 or streak >= 2, otherwise Stable, each input taken as 0 when it is
\* NaN; the day's own three inputs decide it, whatever the other day holds.
C1_RiskStateRule ==
    pc = "returned" =>
        /\ Len(ret) = Len(arg)
        /\ \A i \in DOMAIN arg :
            LET cfl == ValueOr0(arg[i], "daily_CFL")
                pse == ValueOr0(arg[i], "daily_PSe")
                streak == ValueOr0(arg[i], "consecutive_compound_cycles")
            IN  ret[i].risk_state =
                    IF cfl >= 16000 \/ pse >= 800 \/ streak >= 4 THEN "Failure"
                    ELSE IF cfl >= 8000 \/ pse >= 400 \/ streak >= 2 THEN "Straining"
                    ELSE "Stable"

\* C1 witness: a day with daily_CFL exactly 80, PSe 0 and streak 0 has come
\* out Straining, beside a day that came out Failure.
C1_Witness ==
    /\ pc = "returned"
    /\ \E i, j \in DOMAIN arg :
        /\ arg[i].na = {} /\ arg[i].daily_CFL = 8000
        /\ arg[i].daily_PSe = 0 /\ arg[i].consecutive_compound_cycles = 0
        /\ ret[i].risk_state = "Straining"
        /\ j # i /\ ret[j].risk_state = "Failure"

\* C2: the result has the length of the input, streak[0] is 1 for a true
\* first value and 0 otherwise, each later value is the previous one plus 1
\* on a true day and exactly 0 on a false day, and no value is negative.
C2_StreakRecurrence ==
    pc = "returned" =>
        /\ Len(ret) = Len(arg)
        /\ \A i \in DOMAIN arg :
            /\ ret[i] >= 0
            /\ ~arg[i] => ret[i] = 0
            /\ arg[i] /\ i = 1 => ret[i] = 1
            /\ arg[i] /\ i > 1 => ret[i] = ret[i - 1] + 1
        /\ arg = <<TRUE, TRUE, FALSE, TRUE, TRUE, TRUE>> => ret = <<1, 2, 0, 1, 2, 3>>

\* C2 witness: [T,T,F,T,T,T] has been given and [1,2,0,1,2,3] returned.
C2_Witness ==
    /\ pc = "returned"
    /\ arg = <<TRUE, TRUE, FALSE, TRUE, TRUE, TRUE>>
    /\ ret = <<1, 2, 0, 1, 2, 3>>

\* The day's daily_PSe in daily_pse, 0 when daily_pse has no such day.
PseOr0(daily_pse, d) ==
    IF RowsAt(daily_pse, d) = {} THEN 0
    ELSE (CHOOSE p \in RowsAt(daily_pse, d) : TRUE).daily_PSe

\* C6: for every day, high_rain_day = (daily_CFL > 60) and saturated_day =
\* (daily_PSe > 4), a day missing from daily_pse counting as 0 and so as
\* false; compound is their conjunction; each of the three streak counters is
\* the running streak of its own flag.
C6_CompoundFlags ==
    pc = "returned" =>
        /\ Len(ret) = Len(arg.daily_cfl)
        /\ \A i \in DOMAIN ret :
            LET high == arg.daily_cfl[i].daily_CFL > 6000
                sat == PseOr0(arg.daily_pse, arg.daily_cfl[i].day) > 400
                run(col, flag) ==
                    ret[i][col] = IF ~flag THEN 0
                                  ELSE IF i = 1 THEN 1 ELSE ret[i - 1][col] + 1
            IN  /\ ret[i].na = {}
                /\ ret[i].high_rain_day = high
                /\ ret[i].saturated_day = sat
                /\ ret[i].compound = (high /\ sat)
                /\ run("consecutive_high_rain_days", high)
                /\ run("consecutive_saturated_days", sat)
                /\ run("consecutive_compound_cycles", high /\ sat)

\* C9: compute_all_metrics, given an hourly table that is not in
\* chronological order, ends with an error.
C9_FailsFast ==
    (pc = "returned"
     /\ \E i \in 1..(Len(arg) - 1) : Timestamp(arg[i]) > Timestamp(arg[i + 1]))
        => raised # ""

\* C9, amended: compute_all_metrics checks no order.  It raises nothing and
\* returns both tables: the hourly rows in the order given, and one daily
\* row for every calendar day from the earliest to the latest timestamp, in
\* chronological order, daily_CFL the sum of that day's max(EFD - 30, 0)
\* wherever its rows stand in the table.
C9_NoOrderCheck ==
    pc = "returned" =>
        /\ raised = ""
        /\ Len(ret.hourly) = Len(arg)
        /\ \A i \in DOMAIN arg :
            /\ ret.hourly[i].day = arg[i].day /\ ret.hourly[i].hour = arg[i].hour
            /\ ret.hourly[i].EFD = arg[i].rainfall_mm + 50 * arg[i].soil_moisture
                                   + arg[i].river_discharge_m3s
        /\ \A d \in {arg[i].day : i \in DOMAIN arg} :
            \E j \in DOMAIN ret.daily : ret.daily[j].day = d
        /\ \A j \in DOMAIN ret.daily :
            /\ j > 1 => ret.daily[j].day = ret.daily[j - 1].day + 1
            /\ \E i \in DOMAIN arg : arg[i].day <= ret.daily[j].day
            /\ \E i \in DOMAIN arg : arg[i].day >= ret.daily[j].day
            /\ ret.daily[j].daily_CFL =
                   SumSeq([i \in DOMAIN arg |->
                       IF arg[i].day = ret.daily[j].day
                       THEN Max(ret.hourly[i].EFD - 3000, 0) ELSE 0])

\* C9 witness: a table whose later day comes first has been processed and a
\* daily table of two or more days returned.
C9_Witness ==
    /\ pc = "returned"
    /\ raised = ""
    /\ Len(arg) >= 2
    /\ arg[1].day > arg[Len(arg)].day
    /\ Len(ret.daily) >= 2
    /\ ret.daily[Len(ret.daily)].daily_CFL > 0

\* run_dataset holds the daily table of the dataset at hand.
HasDaily == pc \in {"risk", "plot", "summary"}

\* The calendar days that have an hourly record in the loaded table.
RecordDays == {hourly[i].day : i \in DOMAIN hourly}

\* C3: every row of the daily table is a day with at least one hourly
\* record; a day without records between days with records has no row.
C3_GapDayOmitted ==
    HasDaily => \A i \in DOMAIN daily : daily[i].day \in RecordDays

\* C3, amended: the daily table has one row for every calendar day from the
\* first to the last hourly record; the row of a day without records has
\* daily_CFL = 0 and daily_PSe = 0, max_sm_day NaN, every flag false and
\* every streak counter 0, so the streaks run over all those days and a day
\* without records resets them.
C3_GapDayIsZeroRow ==
    HasDaily =>
        /\ \A d \in RecordDays : \E i \in DOMAIN daily : daily[i].day = d
        /\ \A i \in DOMAIN daily :
            /\ i > 1 => daily[i].day = daily[i - 1].day + 1
            /\ \E d \in RecordDays : d <= daily[i].day
            /\ \E d \in RecordDays : d >= daily[i].day
            /\ daily[i].day \notin RecordDays =>
                /\ daily[i].daily_CFL = 0 /\ daily[i].daily_PSe = 0
                /\ "max_sm_day" \in daily[i].na
                /\ ~daily[i].no_drying_day /\ ~daily[i].high_rain_day
                /\ ~daily[i].saturated_day /\ ~daily[i].compound
                /\ daily[i].consecutive_no_drying_days = 0
                /\ daily[i].consecutive_high_rain_days = 0
                /\ daily[i].consecutive_saturated_days = 0
                /\ daily[i].consecutive_compound_cycles = 0
                /\ i > 1 => daily[i].cumulative_CFL = daily[i - 1].cumulative_CFL

\* C3 witness: the daily table has the row of a day without records, right
\* after a saturated day whose streak it resets.
C3_Witness ==
    /\ pc = "risk"
    /\ \E i \in DOMAIN daily :
        /\ i > 1 /\ i < Len(daily)
        /\ daily[i].day \notin RecordDays
        /\ daily[i].daily_CFL = 0
        /\ daily[i - 1].consecutive_saturated_days >= 1
        /\ daily[i].consecutive_saturated_days = 0

\* C4: in a batch run, when load_csv ends dataset k with the schema error
\* (ValueError: a required column is missing), run_dataset is still executed
\* for every dataset after k.
C4_BatchContinues ==
    (arg = "all" /\ pc = "crashed" /\ raised = "ValueError") =>
        \A j \in (k + 1)..NumDatasets : status[j] # "pending"

\* C5: with rainfall >= 0, soil moisture in [0,1] and discharge >= 0, the
\* first day's cumulative_CFL is its daily_CFL and every later day's is the
\* previous day's plus its own daily_CFL, and likewise cumulative_PSe; every
\* hourly contribution is >= 0, so neither column ever decreases.
C5_CumulativeRunningTotal ==
    (HasDaily /\ \A i \in DOMAIN hourly :
                    /\ hourly[i].rainfall_mm >= 0
                    /\ hourly[i].soil_moisture \in 0..100
                    /\ hourly[i].river_discharge_m3s >= 0) =>
        /\ \A i \in DOMAIN hourly : hourly[i].CFL_hour >= 0 /\ hourly[i].PSe_hour >= 0
        /\ \A i \in DOMAIN daily :
            /\ i = 1 => /\ daily[i].cumulative_CFL = daily[i].daily_CFL
                        /\ daily[i].cumulative_PSe = daily[i].daily_PSe
            /\ i > 1 => /\ daily[i].cumulative_CFL
                               = daily[i - 1].cumulative_CFL + daily[i].daily_CFL
                        /\ daily[i].cumulative_PSe
                               = daily[i - 1].cumulative_PSe + daily[i].daily_PSe
                        /\ daily[i].cumulative_CFL >= daily[i - 1].cumulative_CFL
                        /\ daily[i].cumulative_PSe >= daily[i - 1].cumulative_PSe

\* C5 witness: a table of three days, the running totals growing on one day
\* and standing still on another.
C5_Witness ==
    /\ pc = "risk"
    /\ Len(daily) >= 3
    /\ daily[1].cumulative_PSe > 0
    /\ \E i \in 2..Len(daily) : daily[i].cumulative_CFL > daily[i - 1].cumulative_CFL
    /\ \E i \in 2..Len(daily) : daily[i].cumulative_CFL = daily[i - 1].cumulative_CFL

\* The file at hand exists and has every required column.
WellFormed == k > 0 /\ Content(file).exists /\ Range(REQUIRED_COLS) \subseteq Content(file).cols

\* C7: a file with zero hourly rows goes through load_csv, compute_all_metrics
\* and assign_risk_states without an error, and its daily table has no rows.
C7_EmptyInputNoError ==
    (WellFormed /\ Content(file).rows = <<>> /\ calls # <<>>) =>
        /\ raised = ""
        /\ pc # "crashed"
        /\ HasDaily => daily = <<>>

\* C8: for a file that lacks a required column, load_csv raises before
\* compute_all_metrics is called: run_dataset has ended with that error, only
\* load_csv was called, and no figure or summary of the dataset is written.
C8_SchemaErrorBeforeMetrics ==
    (k > 0 /\ Content(file).exists
     /\ ~(Range(REQUIRED_COLS) \subseteq Content(file).cols)
     /\ calls # <<>>) =>
        /\ calls = <<"load_csv">>
        /\ raised = "ValueError"
        /\ pc = "crashed"
        /\ status[k] = "error"
        /\ \A o \in output : o[1] # k

\* C8 witness: the second dataset of a batch lacked a column and the run has
\* ended in load_csv, the first dataset's outputs written.
C8_Witness ==
    /\ pc = "crashed"
    /\ k = 2
    /\ "soil_moisture" \notin Content(file).cols
    /\ raised = "ValueError"
    /\ output = {<<1, "figure">>, <<1, "summary">>}

\* C10: whatever was processed before it, a dataset's daily table is the one
\* that processing its file alone gives, its running totals and its four
\* streak counters restarting from zero on its first day.
C10_NoCarryOver ==
    HasDaily =>
        LET alone == compute_all_metrics(LoadFrame(Content(file))).daily
        IN  /\ daily = IF pc = "risk" THEN alone ELSE assign_risk_states(alone)
            /\ daily # <<>> =>
                /\ daily[1].cumulative_CFL = daily[1].daily_CFL
                /\ daily[1].cumulative_PSe = daily[1].daily_PSe
                /\ daily[1].consecutive_no_drying_days
                       = IF daily[1].no_drying_day THEN 1 ELSE 0
                /\ daily[1].consecutive_high_rain_days
                       = IF daily[1].high_rain_day THEN 1 ELSE 0
                /\ daily[1].consecutive_saturated_days
                       = IF daily[1].saturated_day THEN 1 ELSE 0
                /\ daily[1].consecutive_compound_cycles
                       = IF daily[1].compound THEN 1 ELSE 0

\* C10 witness: the third dataset of a batch has its daily table, the two
\* before it processed, and its first day is a saturated day.
C10_Witness ==
    /\ pc = "risk"
    /\ k = 3
    /\ status[1] = "ok" /\ status[2] = "ok"
    /\ daily[1].saturated_day
    /\ daily[1].cumulative_PSe = daily[1].daily_PSe
    /\ daily[1].consecutive_saturated_days = 1

\* The values the three inputs of the multiplier take in the tables.
MultiplierInputs ==
    {<<ValueOr0(r, "daily_CFL"), ValueOr0(r, "daily_PSe"),
       ValueOr0(r, "consecutive_compound_cycles")>> : r \in RiskRows}

\* C11: for every day, risk_multiplier = 1.0 + daily_CFL/80.0 + daily_PSe/4.0
\* + 0.5 * streak (in 1/8000: 8000 + cfl + 20 pse + 4000 streak), a NaN input
\* taken as 0 and no upper clamp; it is at least 1.0, it does not decrease
\* when one of the three inputs grows, and daily_CFL = 80, daily_PSe = 4,
\* streak = 2 give exactly 4.0.
C11_RiskMultiplier ==
    pc = "returned" =>
        /\ \A i \in DOMAIN arg :
            LET cfl == ValueOr0(arg[i], "daily_CFL")
                pse == ValueOr0(arg[i], "daily_PSe")
                streak == ValueOr0(arg[i], "consecutive_compound_cycles")
            IN  /\ ret[i].risk_multiplier = 8000 + cfl + 20 * pse + 4000 * streak
                /\ ret[i].risk_multiplier >= 8000
                /\ (cfl = 8000 /\ pse = 400 /\ streak = 2) =>
                        ret[i].risk_multiplier = 32000
        /\ \A i, j \in DOMAIN arg :
            (/\ ValueOr0(arg[i], "daily_CFL") <= ValueOr0(arg[j], "daily_CFL")
             /\ ValueOr0(arg[i], "daily_PSe") <= ValueOr0(arg[j], "daily_PSe")
             /\ ValueOr0(arg[i], "consecutive_compound_cycles")
                    <= ValueOr0(arg[j], "consecutive_compound_cycles"))
                => ret[i].risk_multiplier <= ret[j].risk_multiplier
        /\ \A a, b \in MultiplierInputs :
            (a[1] <= b[1] /\ a[2] <= b[2] /\ a[3] <= b[3]) =>
                RiskMultiplier(a[1], a[2], a[3]) <= RiskMultiplier(b[1], b[2], b[3])

\* C11 witness: the day with daily_CFL 80, daily_PSe 4 and streak 2 has the
\* multiplier 4.0, beside a day with daily_CFL 160 whose multiplier is 3.0.
C11_Witness ==
    /\ pc = "returned"
    /\ \E i, j \in DOMAIN arg :
        /\ arg[i].na = {} /\ arg[i].daily_CFL = 8000
        /\ arg[i].daily_PSe = 400 /\ arg[i].consecutive_compound_cycles = 2
        /\ ret[i].risk_multiplier = 32000
        /\ j # i /\ arg[j].daily_CFL = 16000 /\ ret[j].risk_multiplier = 24000

\* C12: summary_table leaves the daily table it is given as it was: index,
\* daily_CFL, daily_PSe, risk_multiplier and every other stored value; the
\* rounding (the multiplier to thousandths, within half a thousandth of the
\* stored value) and the date-only index are in the returned summary alone.
C12_SummaryLeavesDaily ==
    [][pc = "call" =>
        /\ arg' = arg
        /\ Len(ret') = Len(arg)
        /\ \A i \in DOMAIN arg :
            /\ DOMAIN ret'[i] = SummaryCols \cup {"date", "na"}
            /\ "day" \in DOMAIN arg'[i]
            /\ ret'[i].date = arg[i].day
            /\ ret'[i].risk_multiplier % 8 = 0
            /\ ret'[i].risk_multiplier - arg[i].risk_multiplier \in -4..4
            /\ ret'[i].daily_CFL = arg[i].daily_CFL
            /\ ret'[i].daily_PSe = arg[i].daily_PSe]_vars

\* C12 witness: summary_table has returned a summary whose multiplier is the
\* rounded 1.0 while the daily table still holds 1.000375.
C12_Witness ==
    /\ pc = "returned"
    /\ \E i \in DOMAIN arg :
        /\ arg[i].risk_multiplier = 8003
        /\ ret[i].risk_multiplier = 8000
        /\ "cumulative_CFL" \in DOMAIN arg[i]

\* The day's risk_state is Straining or Failure.
NonStable(row) == row.risk_state \in {"Straining", "Failure"}

\* C13: after compute_all_metrics and assign_risk_states, a day flagged
\* saturated_day (daily_PSe > 4.0) is never Stable; so every compound day and
\* every day with consecutive_compound_cycles >= 1 is Straining or Failure,
\* every Stable day has consecutive_compound_cycles = 0, and the three days
\* before a day with consecutive_compound_cycles >= 4 are not Stable.
C13_SaturatedNeverStable ==
    pc = "plot" =>
        \A i \in DOMAIN daily :
            /\ daily[i].na \cap {"daily_PSe", "saturated_day", "compound",
                                 "consecutive_compound_cycles"} = {}
            /\ daily[i].saturated_day = (daily[i].daily_PSe > 400)
            /\ daily[i].saturated_day => NonStable(daily[i])
            /\ daily[i].compound => NonStable(daily[i])
            /\ daily[i].consecutive_compound_cycles >= 1 => NonStable(daily[i])
            /\ daily[i].risk_state = "Stable" =>
                    daily[i].consecutive_compound_cycles = 0
            /\ daily[i].consecutive_compound_cycles >= 4 =>
                    /\ i > 3
                    /\ \A j \in (i - 3)..(i - 1) : NonStable(daily[j])

\* C13 witness: a fourth compound day in a row, followed by a high-rain day
\* that is not saturated and is Stable.
C13_Witness ==
    /\ pc = "plot"
    /\ \E i \in DOMAIN daily :
        /\ daily[i].consecutive_compound_cycles >= 4
        /\ i < Len(daily)
        /\ daily[i + 1].high_rain_day /\ ~daily[i + 1].saturated_day
        /\ daily[i + 1].risk_state = "Stable"

\* C14: in the daily table of compute_all_metrics, on every day
\* consecutive_compound_cycles <= min(consecutive_high_rain_days,
\* consecutive_saturated_days); a saturated day has an hour with soil
\* moisture above 0.80, so saturated_day implies no_drying_day and
\* consecutive_saturated_days <= consecutive_no_drying_days.
C14_StreaksOrdered ==
    pc = "risk" =>
        \A i \in DOMAIN daily :
            /\ daily[i].consecutive_compound_cycles
                  <= Min(daily[i].consecutive_high_rain_days,
                         daily[i].consecutive_saturated_days)
            /\ daily[i].daily_PSe > 400 =>
                  \E h \in DOMAIN hourly :
                      hourly[h].day = daily[i].day /\ hourly[h].soil_moisture > 80
            /\ daily[i].saturated_day =>
                  "no_drying_day" \notin daily[i].na /\ daily[i].no_drying_day
            /\ daily[i].consecutive_saturated_days
                  <= daily[i].consecutive_no_drying_days

\* C14 witness: a saturated day whose no-drying streak is longer than its
\* saturated streak, and a compound day whose high-rain streak is longer
\* than its compound streak.
C14_Witness ==
    /\ pc = "risk"
    /\ \E i, j \in DOMAIN daily :
        /\ daily[i].consecutive_saturated_days >= 1
        /\ daily[i].consecutive_no_drying_days > daily[i].consecutive_saturated_days
        /\ daily[j].consecutive_compound_cycles >= 1
        /\ daily[j].consecutive_high_rain_days > daily[j].consecutive_compound_cycles

=============================================================================
